---- MODULE Spec2Model ----
(***************************************************************************)
(* Route-to-itinerary derivation of the hike browser                       *)
(* (src/routers/frontend.py): GPX import, route profile, marker snapping   *)
(* and itinerary generation, over the tables of src/database/models.py.    *)
(*                                                                         *)
(* Numbers.  Coordinates are integers counting steps of 0.001 degree near  *)
(* the equator; distances and elevations are whole metres.  A table is a   *)
(* sequence of rows in ascending primary key, so a row's position stands   *)
(* for its id: inserts append, deletes keep the order of the rest.         *)
(* An optional column is <<>> (NULL) or <<v>>.  Elevations are floats of a *)
(* short binary format (3 significant bits), so that the rounding of the   *)
(* running sums is kept.                                                   *)
(***************************************************************************)
EXTENDS Integers, Sequences, FiniteSets, TLC

\* ------------------------------------------------------------------ bounds
MaxPts == 3
MaxMarkers == 2
MaxItems == 2 * MaxMarkers + 1

\* (pi / 180 * 0.001 * radius_m)^2 = 111.195^2, the squared metres per step
MetersSqPerStep == 12364

\* --------------------------------------------------------------- optionals
None == <<>>
Some(v) == <<v>>
IsNone(o) == o = <<>>
Val(o) == o[1]

\* XML attribute / element text: absent, a number, or text float() rejects
NumText(n) == <<"num", n>>
BadText == <<"bad", 0>>
IsNum(t) == t # <<>> /\ t[1] = "num"

\* --------------------------------------------------------- sequence helpers
Max2(a, b) == IF a >= b THEN a ELSE b
Min2(a, b) == IF a <= b THEN a ELSE b
Abs(a) == IF a >= 0 THEN a ELSE 0 - a

RECURSIVE SeqsUpTo(_, _)
SeqsUpTo(S, n) ==
  IF n = 0 THEN {<<>>}
  ELSE LET shorter == SeqsUpTo(S, n - 1)
       IN shorter \cup {Append(s, x) : s \in {q \in shorter : Len(q) = n - 1}, x \in S}

\* python's sorted(rows, key=...) and SQL ORDER BY over rows in id order are
\* stable: SortIdx(keys, n) lists the positions 1..n by ascending key, equal
\* keys in their incoming order
RECURSIVE InsertIdx(_, _, _)
InsertIdx(sorted, i, keys) ==
  IF sorted = <<>> THEN <<i>>
  ELSE IF keys[i] < keys[Head(sorted)]
       THEN <<i>> \o sorted
       ELSE <<Head(sorted)>> \o InsertIdx(Tail(sorted), i, keys)

RECURSIVE SortIdx(_, _)
SortIdx(keys, n) == IF n = 0 THEN <<>> ELSE InsertIdx(SortIdx(keys, n - 1), n, keys)

StableSortBy(rows, keys) ==
  LET perm == SortIdx(keys, Len(rows))
  IN [k \in 1..Len(rows) |-> rows[perm[k]]]

RECURSIVE SumSeq(_)
SumSeq(s) == IF s = <<>> THEN 0 ELSE Head(s) + SumSeq(Tail(s))

\* ------------------------------------------------------------ float values
\* A float of 3 significant bits: the whole numbers up to 8, then every
\* second up to 16, every fourth up to 32, ...  FloatUlp(m) is the spacing at
\* magnitude m, FloatRound(x) the nearest float, a tie going to the even
\* significand.
FloatUlp(m) ==
  IF m < 8 THEN 1 ELSE IF m < 16 THEN 2 ELSE IF m < 32 THEN 4 ELSE IF m < 64 THEN 8 ELSE 16

FloatRound(x) ==
  LET m == Abs(x)
      u == FloatUlp(m)
      q == m \div u
      r == m % u
      up == 2 * r > u \/ (2 * r = u /\ q % 2 = 1)
      v == IF up THEN (q + 1) * u ELSE q * u
  IN IF x >= 0 THEN v ELSE 0 - v

\* The running cumulative distance is a float of 10 significant bits: every
\* whole metre below 1024, every second up to 2048, every fourth up to 4096,
\* ...  DistRound(x) is the nearest such float to x >= 0, a tie going to the
\* even significand: what cumulative += d stores.
RECURSIVE DistUlp(_)
DistUlp(m) == IF m < 1024 THEN 1 ELSE 2 * DistUlp(m \div 2)

DistRound(x) ==
  LET u == DistUlp(x)
      q == x \div u
      r == x % u
      up == 2 * r > u \/ (2 * r = u /\ q % 2 = 1)
  IN IF up THEN (q + 1) * u ELSE q * u

\* ------------------------------------------------------- geodesic distance

\* the integer square root of n, known to lie in lo..hi
ISqrt(n, lo, hi) == CHOOSE r \in lo..hi : r * r <= n /\ (r + 1) * (r + 1) > n

\* (haversine_from_origin: lat1, lon1 not subtracted)
haversine_from_origin(lat1, lon1, lat2, lon2) ==
  ISqrt(MetersSqPerStep * (lat2 * lat2 + lon2 * lon2),
        111 * Max2(Abs(lat2), Abs(lon2)), 112 * (Abs(lat2) + Abs(lon2)))

\* _haversine_m: for the small angles of the grid the great-circle distance
\* is radius * sqrt(dp^2 + dl^2) (dp, dl in radians), here rounded down to
\* whole metres
haversine_m(lat1, lon1, lat2, lon2) ==
  LET dp == lat2 - lat1
      dl == lon2 - lon1
  IN ISqrt(MetersSqPerStep * (dp * dp + dl * dl),
           111 * Max2(Abs(dp), Abs(dl)), 112 * (Abs(dp) + Abs(dl)))

\* ------------------------------------------------------------ track ingest
\* An uploaded file: empty bytes, bytes that are not well-formed XML, or a
\* tree whose elements (in document order) carry a tag, the lat / lon
\* attributes and the text of the first <ele> child with text.
EmptyContent == [kind |-> "empty", elems |-> <<>>]
MalformedContent == [kind |-> "malformed", elems |-> <<>>]
XmlContent(elems) == [kind |-> "xml", elems |-> elems]

Trkpt(lat, lon, ele) == [tag |-> "{gpx}trkpt", lat |-> lat, lon |-> lon, ele |-> ele]

\* elem.tag.endswith("trkpt") over the tags the documents use
TagEndsWithTrkpt(tag) == tag \in {"trkpt", "{gpx}trkpt"}

IsTrackPoint(elem) == TagEndsWithTrkpt(elem.tag) /\ elem.lat # None /\ elem.lon # None

\* float(lat) / float(lon) raise ValueError, which no handler catches
RaisesValueError(content) ==
  \E i \in 1..Len(content.elems) :
     /\ IsTrackPoint(content.elems[i])
     /\ ~IsNum(content.elems[i].lat) \/ ~IsNum(content.elems[i].lon)

\* (RawPointEleZero: an elevation text float() rejects taken as 0)
RawPointEleZero(elem) ==
  [lat |-> elem.lat[2], lon |-> elem.lon[2],
   ele |-> IF IsNum(elem.ele) THEN Some(FloatRound(elem.ele[2])) ELSE Some(0)]

RawPoint(elem) ==
  [lat |-> elem.lat[2], lon |-> elem.lon[2],
   ele |-> IF IsNum(elem.ele) THEN Some(FloatRound(elem.ele[2])) ELSE None]

parse_gpx_points(content) ==
  LET kept == SelectSeq(content.elems, IsTrackPoint)
  IN [k \in 1..Len(kept) |-> RawPoint(kept[k])]

\* ----------------------------------------------------------- route profile
\* the rows db.add()ed for raw_points[1..i]: the running cumulative is the
\* previous row's plus the distance from the previous point
\* (AddRoutePointsNoSum: cumulative = instead of cumulative +=)
RECURSIVE AddRoutePointsNoSum(_, _)
AddRoutePointsNoSum(raw, i) ==
  IF i = 0 THEN <<>>
  ELSE LET rows == AddRoutePointsNoSum(raw, i - 1)
           cumulative ==
             IF i = 1 THEN 0
             ELSE haversine_m(raw[i - 1].lat, raw[i - 1].lon, raw[i].lat, raw[i].lon)
       IN Append(rows, [seq |-> i - 1, latitude |-> raw[i].lat, longitude |-> raw[i].lon,
                        elevation_m |-> raw[i].ele, cumulative_distance_m |-> cumulative])

RECURSIVE AddRoutePoints(_, _)
AddRoutePoints(raw, i) ==
  IF i = 0 THEN <<>>
  ELSE LET rows == AddRoutePoints(raw, i - 1)
           cumulative ==
             IF i = 1 THEN 0
             ELSE DistRound(rows[i - 1].cumulative_distance_m
                            + haversine_m(raw[i - 1].lat, raw[i - 1].lon,
                                          raw[i].lat, raw[i].lon))
       IN Append(rows, [seq |-> i - 1, latitude |-> raw[i].lat, longitude |-> raw[i].lon,
                        elevation_m |-> raw[i].ele, cumulative_distance_m |-> cumulative])

NewRoutePoints(raw) == AddRoutePoints(raw, Len(raw))

\* --------------------------------------------------------- elevation totals
\* <<uphill, downhill>> after the pairs up to points[i]; every float
\* operation rounds
\* (CalcElevationLastDescent: downhill = -delta instead of downhill += -delta)
\* (CalcElevationResets: a pair with a missing elevation restarts the totals)
RECURSIVE CalcElevationResets(_, _)
CalcElevationResets(points, i) ==
  IF i <= 1 \/ i > Len(points) THEN <<0, 0>>
  ELSE LET acc == CalcElevationResets(points, i - 1)
           prev == points[i - 1].elevation_m
           cur == points[i].elevation_m
       IN IF prev = None \/ cur = None THEN <<0, 0>>
          ELSE LET delta == FloatRound(Val(cur) - Val(prev))
               IN IF delta > 0 THEN <<FloatRound(acc[1] + delta), acc[2]>>
                  ELSE IF delta < 0 THEN <<acc[1], FloatRound(acc[2] - delta)>>
                  ELSE acc

RECURSIVE CalcElevationLastDescent(_, _)
CalcElevationLastDescent(points, i) ==
  IF i <= 1 \/ i > Len(points) THEN <<0, 0>>
  ELSE LET acc == CalcElevationLastDescent(points, i - 1)
           prev == points[i - 1].elevation_m
           cur == points[i].elevation_m
       IN IF prev = None \/ cur = None THEN acc
          ELSE LET delta == FloatRound(Val(cur) - Val(prev))
               IN IF delta > 0 THEN <<FloatRound(acc[1] + delta), acc[2]>>
                  ELSE IF delta < 0 THEN <<acc[1], 0 - delta>>
                  ELSE acc

RECURSIVE CalcElevation(_, _)
CalcElevation(points, i) ==
  IF i <= 1 \/ i > Len(points) THEN <<0, 0>>
  ELSE LET acc == CalcElevation(points, i - 1)
           prev == points[i - 1].elevation_m
           cur == points[i].elevation_m
       IN IF prev = None \/ cur = None THEN acc
          ELSE LET delta == FloatRound(Val(cur) - Val(prev))
               IN IF delta > 0 THEN <<FloatRound(acc[1] + delta), acc[2]>>
                  ELSE IF delta < 0 THEN <<acc[1], FloatRound(acc[2] - delta)>>
                  ELSE acc

calc_elevation(points) == CalcElevation(points, Len(points))

\* ----------------------------------------------------------- marker snapping
\* the scan state is <<best_seq, best_dist>>; best_dist = None is float("inf")
\* (SnapScanLastWins: the scan with dist <= best_dist)
RECURSIVE SnapScanLastWins(_, _, _, _)
SnapScanLastWins(latitude, longitude, route, i) ==
  IF i = 0 THEN <<0, None>>
  ELSE LET best == SnapScanLastWins(latitude, longitude, route, i - 1)
           dist == haversine_m(latitude, longitude, route[i].latitude, route[i].longitude)
       IN IF best[2] = None \/ dist <= Val(best[2])
          THEN <<route[i].seq, Some(dist)>>
          ELSE best

RECURSIVE SnapScan(_, _, _, _)
SnapScan(latitude, longitude, route, i) ==
  IF i = 0 THEN <<0, None>>
  ELSE LET best == SnapScan(latitude, longitude, route, i - 1)
           dist == haversine_m(latitude, longitude, route[i].latitude, route[i].longitude)
       IN IF best[2] = None \/ dist < Val(best[2])
          THEN <<route[i].seq, Some(dist)>>
          ELSE best

snap_to_route(latitude, longitude, route) == SnapScan(latitude, longitude, route, Len(route))

\* -------------------------------------------------------------------- state
\* Rows of the trips, days and poi_types tables (no operation here changes them)
Trips == {1, 2}
DayTrip == (1 :> 1) @@ (2 :> 1) @@ (3 :> 2)
Days == DOMAIN DayTrip
POITypes == {1}

VARIABLES
  route_points,    \* [trip -> rows of route_points of the trip, by id]
  route_markers,   \* [trip -> rows of route_markers of the trip, by id]
  items,           \* [trip -> rows of items of the trip, by id]
  response,        \* the answer to the last request
  last_run,        \* the last committed request and, of a generation, its run
  session,         \* the request being served statement by statement, if any
  seen,            \* what a concurrent reader got at its last read
  scan             \* the schedule scan of the last trip page

vars == <<route_points, route_markers, items, response, last_run, session, seen, scan>>

Redirect == [status |-> 303, detail |-> ""]
HTTPException(status_code, detail) == [status |-> status_code, detail |-> detail]

\* the record of a committed request.  Of an import: repeat says the trip had
\* a route before.  Of a generation: the day, whether it cleared, the items
\* it emitted, repeat says the committed request before it was a clearing
\* generation for the same day, and before holds the day's items before it.
Committed(op) ==
  [op |-> op, day |-> 0, clear |-> FALSE, emitted |-> <<>>, repeat |-> FALSE,
   before |-> <<>>]
NoRun == Committed("none")

\* no trip page was asked for yet
NoScan == [items |-> <<>>, pos |-> 0, last_end_minutes |-> <<>>, schedule |-> <<>>]

\* no request is being served statement by statement
Idle == [pc |-> 0]

\* select(RoutePoint).where(trip_id == t).order_by(seq)
RoutePointsOf(t) ==
  StableSortBy(route_points[t], [k \in 1..Len(route_points[t]) |-> route_points[t][k].seq])

\* select(RouteMarker).where(trip_id == t).order_by(snapped_distance_m)
MarkersOf(t) ==
  StableSortBy(route_markers[t],
               [k \in 1..Len(route_markers[t]) |-> route_markers[t][k].snapped_distance_m])

\* _to_optional_int over the form values used: "" is None, digits parse,
\* anything else raises ValueError
IntTexts ==
  ("0" :> 0) @@ ("1" :> 1) @@ ("2" :> 2) @@ ("3" :> 3) @@ ("7" :> 7) @@ ("45" :> 45)
  @@ ("-5" :> 0 - 5)
IsIntText(value) == value \in DOMAIN IntTexts
\* (to_optional_int_default: "" taken for the first day)
to_optional_int_default(value) == IF value = "" THEN Some(1) ELSE Some(IntTexts[value])

to_optional_int(value) == IF value = "" THEN None ELSE Some(IntTexts[value])
to_optional_int_raises(value) == value # "" /\ ~IsIntText(value)

\* datetime.strptime(value, "%H:%M").time() over the texts used: a time of
\* day is <<hour, minute>>
TimeTexts ==
  ("00:00" :> <<0, 0>>) @@ ("08:00" :> <<8, 0>>) @@ ("09:30" :> <<9, 30>>)
  @@ ("23:30" :> <<23, 30>>)

to_optional_time(value) == IF value = "" THEN None ELSE Some(TimeTexts[value])
to_optional_time_raises(value) == value # "" /\ value \notin DOMAIN TimeTexts

\* int(value), ValueError("Duration must be >= 0") when negative
to_optional_positive_int(value) == to_optional_int(value)
to_optional_positive_int_raises(value) ==
  to_optional_int_raises(value) \/ (value # "" /\ IntTexts[value] < 0)

\* int(value), ValueError("Value must be >= 0") when negative
to_optional_non_negative_int_raises(value) == to_optional_positive_int_raises(value)

\* title.strip() or "POI" over the titles used
Strip(title) == IF title \in {"", " "} THEN "" ELSE title
MarkerTitle(title) == IF Strip(title) = "" THEN "POI" ELSE Strip(title)

Init ==
  /\ route_points = [t \in Trips |-> <<>>]
  /\ route_markers = [t \in Trips |-> <<>>]
  /\ items = [t \in Trips |-> <<>>]
  /\ response = Redirect
  /\ last_run = NoRun
  /\ session = Idle
  /\ seen = [route_points |-> <<>>, items |-> <<>>, during |-> FALSE]
  /\ scan = NoScan

\* ------------------------------------------------------------------ import
\* delete(RoutePoint).where(trip_id) and delete(RouteMarker).where(trip_id)
\* on the rows of the trip (keep_...: the delete left out)
keep_points_of_trip(rows) == rows
keep_markers_of_trip(rows) == rows
keep_last_marker_of_trip(rows) == IF rows = <<>> THEN <<>> ELSE <<rows[Len(rows)]>>

delete_points_of_trip(rows) == <<>>

delete_markers_of_trip(rows) == <<>>

\* if len(raw_points) < 2: raise (FewerThanOnePoint: the check with < 1)
FewerThanOnePoint(raw_points) == Len(raw_points) < 1

TooFewPoints(raw_points) == Len(raw_points) < 2

\* the answer after db.commit(): target_day_id is parsed only then
AfterCommit(target_day_id) ==
  IF to_optional_int_raises(target_day_id)
  THEN HTTPException(400, "Invalid target day value")
  ELSE Redirect

import_route_gpx(trip_id, content, target_day_id) ==
  LET raw_points == parse_gpx_points(content)
      Fail(resp) == /\ response' = resp
                    /\ UNCHANGED <<route_points, route_markers, items, last_run, session, seen, scan>>
  IN IF trip_id \notin Trips THEN Fail(HTTPException(404, "Trip not found"))
     ELSE IF content.kind = "empty" THEN Fail(HTTPException(400, "Uploaded GPX is empty"))
     ELSE IF content.kind = "malformed" THEN Fail(HTTPException(400, "Invalid GPX XML"))
     ELSE IF RaisesValueError(content) THEN Fail(HTTPException(500, "Internal Server Error"))
     ELSE IF TooFewPoints(raw_points)
          THEN Fail(HTTPException(400, "GPX must contain at least 2 track points"))
     ELSE /\ route_points' = [route_points EXCEPT ![trip_id] =
                                 delete_points_of_trip(@) \o NewRoutePoints(raw_points)]
          /\ route_markers' = [route_markers EXCEPT ![trip_id] = delete_markers_of_trip(@)]
          /\ response' = AfterCommit(target_day_id)
          /\ last_run' = [Committed("import") EXCEPT !.repeat = route_points[trip_id] # <<>>]
          /\ UNCHANGED <<items, session, seen, scan>>

\* ------------------------------------------------------------------ markers
\* (add_route_marker_unrouted: the handler without "if not route_points")
add_route_marker_unrouted(trip_id, title, poi_type_id, latitude, longitude, target_day_id) ==
  LET route == RoutePointsOf(trip_id)
      snapped_seq == snap_to_route(latitude, longitude, route)[1]
      marker == [title |-> MarkerTitle(title), poi_type_id |-> poi_type_id,
                 latitude |-> latitude, longitude |-> longitude,
                 snapped_seq |-> snapped_seq,
                 snapped_distance_m |->
                   IF route = <<>> THEN 0 ELSE route[snapped_seq + 1].cumulative_distance_m]
  IN IF trip_id \notin Trips \/ poi_type_id \notin POITypes
     THEN /\ response' = HTTPException(400, "Invalid POI type")
          /\ UNCHANGED <<route_points, route_markers, items, last_run, session, seen, scan>>
     ELSE /\ route_markers' = [route_markers EXCEPT ![trip_id] = Append(@, marker)]
          /\ response' = AfterCommit(target_day_id)
          /\ last_run' = Committed("add_marker")
          /\ UNCHANGED <<route_points, items, session, seen, scan>>

add_route_marker(trip_id, title, poi_type_id, latitude, longitude, target_day_id) ==
  LET route == RoutePointsOf(trip_id)
      snapped_seq == snap_to_route(latitude, longitude, route)[1]
      snapped_point == route[snapped_seq + 1]
      marker == [title |-> MarkerTitle(title), poi_type_id |-> poi_type_id,
                 latitude |-> latitude, longitude |-> longitude,
                 snapped_seq |-> snapped_seq,
                 snapped_distance_m |-> snapped_point.cumulative_distance_m]
      Fail(resp) == /\ response' = resp
                    /\ UNCHANGED <<route_points, route_markers, items, last_run, session, seen, scan>>
  IN IF trip_id \notin Trips THEN Fail(HTTPException(404, "Trip not found"))
     ELSE IF poi_type_id \notin POITypes THEN Fail(HTTPException(400, "Invalid POI type"))
     ELSE IF route = <<>> THEN Fail(HTTPException(400, "Import GPX route first"))
     ELSE /\ route_markers' = [route_markers EXCEPT ![trip_id] = Append(@, marker)]
          /\ response' = AfterCommit(target_day_id)
          /\ last_run' = Committed("add_marker")
          /\ UNCHANGED <<route_points, items, session, seen, scan>>

\* marker_id is <<owner, k>>: the k-th marker row of trip owner
RemoveAt(rows, k) == SubSeq(rows, 1, k - 1) \o SubSeq(rows, k + 1, Len(rows))

delete_route_marker(trip_id, marker_id, target_day_id) ==
  LET owner == marker_id[1]
      k == marker_id[2]
      found == owner \in Trips /\ k \in 1..Len(route_markers[owner])
  IN IF ~found \/ owner # trip_id
     THEN /\ response' = HTTPException(404, "Marker not found")
          /\ UNCHANGED <<route_points, route_markers, items, last_run, session, seen, scan>>
     ELSE /\ route_markers' = [route_markers EXCEPT ![owner] = RemoveAt(@, k)]
          /\ response' = AfterCommit(target_day_id)
          /\ last_run' = Committed("delete_marker")
          /\ UNCHANGED <<route_points, items, session, seen, scan>>

\* --------------------------------------------------------------- generation
\* Item rows.  title is a tuple: <<t>> for a POI, <<a, "->", b>> for the
\* f"{a} -> {b}" of a travel item.  distance_km holds distance_m / 1000.0
\* as a count of thousandths of a kilometre.
TransportItem(start_anchor, end_anchor, distance_m, elevation, day_id, sort_order) ==
  [title |-> <<start_anchor.title, "->", end_anchor.title>>,
   item_type |-> "transport", transport_type |-> Some("walk"),
   distance_km |-> Some(distance_m), uphill_m |-> Some(elevation[1]),
   downhill_m |-> Some(elevation[2]), poi_type_id |-> None,
   latitude |-> None, longitude |-> None,
   route_start_seq |-> Some(start_anchor.seq), route_end_seq |-> Some(end_anchor.seq),
   start_time |-> None, duration_minutes |-> None,
   day_id |-> Some(day_id), sort_order |-> sort_order]

PoiItem(marker, snapped_point, day_id, sort_order) ==
  [title |-> <<marker.title>>,
   item_type |-> "poi", transport_type |-> None,
   distance_km |-> None, uphill_m |-> None, downhill_m |-> None,
   poi_type_id |-> Some(marker.poi_type_id),
   latitude |-> Some(snapped_point.latitude), longitude |-> Some(snapped_point.longitude),
   route_start_seq |-> Some(marker.snapped_seq), route_end_seq |-> Some(marker.snapped_seq),
   start_time |-> None, duration_minutes |-> None,
   day_id |-> Some(day_id), sort_order |-> sort_order]

\* python list[a : b] for 0 <= a, b: out-of-range bounds are clamped
PySlice(list, a, b) == SubSeq(list, a + 1, Min2(b, Len(list)))

\* anchors = sorted([Start] + markers + [Finish], key=cum); marker is the
\* position of the marker in the query result, 0 for Start and Finish
Anchors(route, markers) ==
  LET start == [title |-> "Start", seq |-> route[1].seq,
                cum |-> route[1].cumulative_distance_m, marker |-> 0]
      finish == [title |-> "Finish", seq |-> route[Len(route)].seq,
                 cum |-> route[Len(route)].cumulative_distance_m, marker |-> 0]
      rows == <<start>>
              \o [k \in 1..Len(markers) |->
                    [title |-> markers[k].title, seq |-> markers[k].snapped_seq,
                     cum |-> markers[k].snapped_distance_m, marker |-> k]]
              \o <<finish>>
  IN StableSortBy(rows, [k \in 1..Len(rows) |-> rows[k].cum])

\* if end_seq <= start_seq: continue
\* (SkipsPairStrict: with <; SkipsPairOffByOne: with start_seq + 1)
SkipsPairStrict(start_anchor, end_anchor) == end_anchor.seq < start_anchor.seq

\* (SkipsPairNever: the check left out)
SkipsPairNever(start_anchor, end_anchor) == FALSE

SkipsPairOffByOne(start_anchor, end_anchor) == end_anchor.seq <= start_anchor.seq + 1

SkipsPair(start_anchor, end_anchor) == end_anchor.seq <= start_anchor.seq

\* distance_m = max(0.0, end_anchor["cum"] - start_anchor["cum"])
\* (TravelDistanceNoStart: the start's cum not subtracted)
TravelDistanceNoStart(start_anchor, end_anchor) == Max2(0, end_anchor.cum)

TravelDistance(start_anchor, end_anchor) == Max2(0, end_anchor.cum - start_anchor.cum)

\* the items db.add()ed by the loop over anchors[idx], anchors[idx + 1] for
\* idx < n, the first of them numbered sort_order: every add is followed by
\* sort_order += 1
RECURSIVE Emit(_, _, _, _, _, _)
Emit(route, markers, anchors, n, day_id, sort_order) ==
  IF n = 0 THEN <<>>
  ELSE LET before == Emit(route, markers, anchors, n - 1, day_id, sort_order)
           start_anchor == anchors[n]
           end_anchor == anchors[n + 1]
           order == sort_order + Len(before)
           segment_points == PySlice(route, start_anchor.seq, end_anchor.seq + 1)
           travel == TransportItem(start_anchor, end_anchor,
                                   TravelDistance(start_anchor, end_anchor),
                                   calc_elevation(segment_points), day_id, order)
       IN IF SkipsPair(start_anchor, end_anchor) THEN before
          ELSE IF end_anchor.marker = 0 THEN before \o <<travel>>
          ELSE LET marker == markers[end_anchor.marker]
                   snapped_point == route[marker.snapped_seq + 1]
               IN before \o <<travel, PoiItem(marker, snapped_point, day_id, order + 1)>>

\* select(Item).where(trip_id, day_id == d), and the rows that
\* delete(Item).where(trip_id, day_id == d) leaves
ItemsOfDay(rows, day_id) == SelectSeq(rows, LAMBDA row : row.day_id = Some(day_id))

\* (keep_items_of_day: the delete left out)
keep_items_of_day(rows, day_id) == rows

delete_items_of_day(rows, day_id) == SelectSeq(rows, LAMBDA row : row.day_id # Some(day_id))

\* order_by(Item.sort_order.asc(), Item.id.asc())
OrderedItems(rows) == StableSortBy(rows, [k \in 1..Len(rows) |-> rows[k].sort_order])

\* select(func.max(Item.sort_order)).where(trip_id, day_id): None when no row
\* (MinSortOrder: func.min)
MinSortOrder(rows) ==
  IF rows = <<>> THEN None
  ELSE Some(CHOOSE m \in {rows[k].sort_order : k \in 1..Len(rows)} :
              \A k \in 1..Len(rows) : rows[k].sort_order >= m)

MaxSortOrder(rows) ==
  IF rows = <<>> THEN None
  ELSE Some(CHOOSE m \in {rows[k].sort_order : k \in 1..Len(rows)} :
              \A k \in 1..Len(rows) : rows[k].sort_order <= m)

\* the HTTPException the checks before the first write raise, Redirect if none
\* (generate_error_unmarked: the check for markers left out)
generate_error_unmarked(trip_id, day_id) ==
  IF trip_id \notin Trips THEN HTTPException(404, "Trip not found")
  ELSE IF to_optional_int_raises(day_id) THEN HTTPException(400, "Invalid day value")
  ELSE IF to_optional_int(day_id) = None
       THEN HTTPException(400, "Select a day for GPX generation")
  ELSE IF Val(to_optional_int(day_id)) \notin Days
          \/ DayTrip[Val(to_optional_int(day_id))] # trip_id
       THEN HTTPException(400, "Day does not belong to this trip")
  ELSE IF Len(RoutePointsOf(trip_id)) < 2 THEN HTTPException(400, "Import GPX route first")
  ELSE Redirect

generate_error(trip_id, day_id) ==
  IF trip_id \notin Trips THEN HTTPException(404, "Trip not found")
  ELSE IF to_optional_int_raises(day_id) THEN HTTPException(400, "Invalid day value")
  ELSE IF to_optional_int(day_id) = None
       THEN HTTPException(400, "Select a day for GPX generation")
  ELSE IF Val(to_optional_int(day_id)) \notin Days
          \/ DayTrip[Val(to_optional_int(day_id))] # trip_id
       THEN HTTPException(400, "Day does not belong to this trip")
  ELSE IF Len(RoutePointsOf(trip_id)) < 2 THEN HTTPException(400, "Import GPX route first")
  ELSE IF MarkersOf(trip_id) = <<>>
       THEN HTTPException(400, "Add at least one marker before generation")
  ELSE Redirect

generate_itinerary_from_route(trip_id, day_id, clear_existing) ==
  LET day == Val(to_optional_int(day_id))
      route == RoutePointsOf(trip_id)
      markers == MarkersOf(trip_id)
      kept == IF clear_existing = "on"
              THEN delete_items_of_day(items[trip_id], day)
              ELSE items[trip_id]
      max_sort == MaxSortOrder(ItemsOfDay(items[trip_id], day))
      sort_order == IF clear_existing = "on" THEN 0
                    ELSE IF max_sort # None THEN Val(max_sort) + 1 ELSE 0
      emitted == Emit(route, markers, Anchors(route, markers), Len(markers) + 1,
                      day, sort_order)
      repeat == /\ clear_existing = "on"
                /\ last_run.op = "generate" /\ last_run.day = day /\ last_run.clear
  IN IF generate_error(trip_id, day_id) # Redirect
     THEN /\ response' = generate_error(trip_id, day_id)
          /\ UNCHANGED <<route_points, route_markers, items, last_run, session, seen, scan>>
     ELSE /\ Len(kept) + Len(emitted) <= MaxItems
          /\ items' = [items EXCEPT ![trip_id] = kept \o emitted]
          /\ response' = Redirect
          /\ last_run' = [op |-> "generate", day |-> day,
                          clear |-> clear_existing = "on", emitted |-> emitted,
                          repeat |-> repeat,
                          before |-> IF repeat
                                     THEN OrderedItems(ItemsOfDay(items[trip_id], day))
                                     ELSE <<>>]
          /\ UNCHANGED <<route_points, route_markers, session, seen, scan>>

\* ---------------------------------------------------------------- route data
\* seq_ranges: of the day's items in (sort_order, id) order, those with both
\* seqs and start # end, as <<lower, higher>>
SeqRanges(day_items) ==
  LET ranged == SelectSeq(day_items,
                          LAMBDA item : /\ item.route_start_seq # None
                                        /\ item.route_end_seq # None
                                        /\ item.route_start_seq # item.route_end_seq)
  IN [k \in 1..Len(ranged) |->
        <<Min2(Val(ranged[k].route_start_seq), Val(ranged[k].route_end_seq)),
          Max2(Val(ranged[k].route_start_seq), Val(ranged[k].route_end_seq))>>]

\* [route_point_by_seq[seq] for seq in range(start_seq, end_seq + 1)
\*  if seq in route_point_by_seq]
Segment(points, start_seq, end_seq) ==
  SelectSeq(points, LAMBDA point : point.seq >= start_seq /\ point.seq <= end_seq)

\* day_points after the first n ranges
RECURSIVE DayPoints(_, _, _)
DayPoints(points, seq_ranges, n) ==
  IF n = 0 THEN <<>>
  ELSE LET day_points == DayPoints(points, seq_ranges, n - 1)
           segment == Segment(points, seq_ranges[n][1], seq_ranges[n][2])
       IN IF segment = <<>> THEN day_points
          ELSE IF day_points # <<>> /\ day_points[Len(day_points)].seq = segment[1].seq
               THEN day_points \o Tail(segment)
               ELSE day_points \o segment

JSONResponse(selected_day_id, points, markers) ==
  [status |-> 200, detail |-> "", selected_day_id |-> selected_day_id,
   points |-> points, markers |-> markers]

route_data(trip_id, day_id) ==
  LET points == RoutePointsOf(trip_id)
      markers == MarkersOf(trip_id)
      selected_day_id == to_optional_int(day_id)
      day_items == OrderedItems(ItemsOfDay(items[trip_id], Val(selected_day_id)))
      seq_ranges == SeqRanges(day_items)
      day_points == DayPoints(points, seq_ranges, Len(seq_ranges))
      min_seq == CHOOSE m \in {r[1] : r \in {seq_ranges[k] : k \in 1..Len(seq_ranges)}} :
                   \A k \in 1..Len(seq_ranges) : m <= seq_ranges[k][1]
      max_seq == CHOOSE m \in {r[2] : r \in {seq_ranges[k] : k \in 1..Len(seq_ranges)}} :
                   \A k \in 1..Len(seq_ranges) : m >= seq_ranges[k][2]
      display_markers ==
        IF seq_ranges = <<>> THEN <<>>
        ELSE SelectSeq(markers, LAMBDA marker : /\ min_seq <= marker.snapped_seq
                                                /\ marker.snapped_seq <= max_seq)
  IN /\ UNCHANGED <<route_points, route_markers, items, last_run, session, seen, scan>>
     /\ response' =
          IF trip_id \notin Trips THEN HTTPException(404, "Trip not found")
          ELSE IF to_optional_int_raises(day_id) THEN HTTPException(400, "Invalid day value")
          ELSE IF selected_day_id = None THEN JSONResponse(None, points, markers)
          ELSE IF Val(selected_day_id) \notin Days \/ DayTrip[Val(selected_day_id)] # trip_id
               THEN HTTPException(400, "Day does not belong to this trip")
          ELSE JSONResponse(selected_day_id,
                            IF day_points # <<>> THEN day_points ELSE points,
                            display_markers)

\* ------------------------------------------------------------- hand-made items
\* TransportType(transport_type) over the values used
TransportTypes == {"walk", "train", "car"}

\* select(Item).where(trip_id, day_id IS NULL / day_id == d): day is optional
ItemsOfBucket(rows, day) == SelectSeq(rows, LAMBDA row : row.day_id = day)

\* sibling.sort_order += 1 for the siblings at or after target_position
ShiftSiblings(rows, day, target_position) ==
  [k \in 1..Len(rows) |->
     IF rows[k].day_id = day /\ rows[k].sort_order >= target_position
     THEN [rows[k] EXCEPT !.sort_order = @ + 1]
     ELSE rows[k]]

\* the form fields distance_km, uphill_m, downhill_m, description and
\* tag_ids are left empty
create_item(trip_id, title, item_type, day_id, transport_type, poi_type_id, start_time, duration_minutes, insert_position) ==
  LET parsed_day_id == to_optional_int(day_id)
      parsed_poi_type_id == to_optional_int(poi_type_id)
      parsed_start_time == to_optional_time(start_time)
      parsed_duration == to_optional_positive_int(duration_minutes)
      parsed_insert_position == to_optional_int(insert_position)
      is_transport == item_type = "transport"
      siblings == ItemsOfBucket(items[trip_id], parsed_day_id)
      target_position == IF parsed_insert_position = None THEN Len(siblings)
                         ELSE Min2(Val(parsed_insert_position), Len(siblings))
      item == [title |-> <<title>>, item_type |-> item_type,
               transport_type |-> IF is_transport /\ transport_type # ""
                                  THEN Some(transport_type) ELSE None,
               distance_km |-> None, uphill_m |-> None, downhill_m |-> None,
               poi_type_id |-> IF is_transport THEN None ELSE parsed_poi_type_id,
               latitude |-> None, longitude |-> None,
               route_start_seq |-> None, route_end_seq |-> None,
               start_time |-> parsed_start_time, duration_minutes |-> parsed_duration,
               day_id |-> parsed_day_id, sort_order |-> target_position]
      Fail(resp) == /\ response' = resp
                    /\ UNCHANGED <<route_points, route_markers, items, last_run, session, seen, scan>>
  IN IF trip_id \notin Trips THEN Fail(HTTPException(404, "Trip not found"))
     ELSE IF \/ to_optional_int_raises(day_id) \/ to_optional_int_raises(poi_type_id)
             \/ to_optional_time_raises(start_time)
             \/ to_optional_positive_int_raises(duration_minutes)
             \/ to_optional_non_negative_int_raises(insert_position)
          THEN Fail(HTTPException(400, "invalid literal for int()"))
     ELSE IF parsed_day_id # None
             /\ (Val(parsed_day_id) \notin Days \/ DayTrip[Val(parsed_day_id)] # trip_id)
          THEN Fail(HTTPException(400, "Day does not belong to this trip"))
     ELSE IF is_transport /\ transport_type # "" /\ transport_type \notin TransportTypes
          THEN Fail(HTTPException(400, "Invalid transport type"))
     ELSE IF ~(is_transport /\ transport_type # "") /\ parsed_poi_type_id = None
          THEN Fail(HTTPException(400, "POI type is required for POI items"))
     ELSE IF ~(is_transport /\ transport_type # "") /\ Val(parsed_poi_type_id) \notin POITypes
          THEN Fail(HTTPException(400, "Invalid POI type"))
     ELSE /\ items' = [items EXCEPT ![trip_id] =
                          Append(IF parsed_insert_position = None THEN @
                                 ELSE ShiftSiblings(@, parsed_day_id, target_position),
                                 item)]
          /\ response' = Redirect
          /\ last_run' = Committed("create_item")
          /\ UNCHANGED <<route_points, route_markers, session, seen, scan>>

\* item_id is <<owner, k>>: the k-th item row of trip owner.
\* the positions of the rows of a bucket other than row k, and the index a
\* row gets from enumerate() over them in (sort_order, id) order
BucketIdx(rows, day, k) == {i \in 1..Len(rows) : rows[i].day_id = day /\ i # k}

RankIn(rows, idxs, j) ==
  Cardinality({i \in idxs : \/ rows[i].sort_order < rows[j].sort_order
                            \/ rows[i].sort_order = rows[j].sort_order /\ i < j})

ItemFound(trip_id, item_id) ==
  /\ item_id[1] \in Trips /\ item_id[2] \in 1..Len(items[item_id[1]])
  /\ item_id[1] = trip_id

\* the form fields distance_km, uphill_m, downhill_m, description and
\* tag_ids are left empty
edit_item(trip_id, item_id, title, item_type, day_id, transport_type, poi_type_id, start_time, duration_minutes) ==
  LET k == item_id[2]
      rows == items[trip_id]
      parsed_day_id == to_optional_int(day_id)
      parsed_poi_type_id == to_optional_int(poi_type_id)
      is_transport == item_type = "transport"
      old_day_id == rows[k].day_id
      source_items == BucketIdx(rows, old_day_id, k)
      target_items == BucketIdx(rows, parsed_day_id, k)
      edited == [rows[k] EXCEPT
                   !.title = <<title>>, !.item_type = item_type,
                   !.start_time = to_optional_time(start_time),
                   !.duration_minutes = to_optional_positive_int(duration_minutes),
                   !.transport_type = IF is_transport /\ transport_type # ""
                                      THEN Some(transport_type) ELSE None,
                   !.poi_type_id = IF is_transport THEN None ELSE parsed_poi_type_id,
                   !.distance_km = None, !.uphill_m = None, !.downhill_m = None,
                   !.day_id = parsed_day_id]
      Fail(resp) == /\ response' = resp
                    /\ UNCHANGED <<route_points, route_markers, items, last_run, session, seen, scan>>
  IN IF trip_id \notin Trips THEN Fail(HTTPException(404, "Trip not found"))
     ELSE IF ~ItemFound(trip_id, item_id) THEN Fail(HTTPException(404, "Item not found"))
     ELSE IF \/ to_optional_int_raises(day_id) \/ to_optional_int_raises(poi_type_id)
             \/ to_optional_time_raises(start_time)
             \/ to_optional_positive_int_raises(duration_minutes)
          THEN Fail(HTTPException(400, "invalid literal for int()"))
     ELSE IF parsed_day_id # None
             /\ (Val(parsed_day_id) \notin Days \/ DayTrip[Val(parsed_day_id)] # trip_id)
          THEN Fail(HTTPException(400, "Day does not belong to this trip"))
     ELSE IF is_transport /\ transport_type # "" /\ transport_type \notin TransportTypes
          THEN Fail(HTTPException(400, "Invalid transport type"))
     ELSE IF ~(is_transport /\ transport_type # "") /\ parsed_poi_type_id = None
          THEN Fail(HTTPException(400, "POI type is required for POI items"))
     ELSE IF ~(is_transport /\ transport_type # "") /\ Val(parsed_poi_type_id) \notin POITypes
          THEN Fail(HTTPException(400, "Invalid POI type"))
     ELSE /\ items' = [items EXCEPT ![trip_id] =
                          [j \in 1..Len(rows) |->
                             IF old_day_id = parsed_day_id
                             THEN IF j = k THEN edited ELSE rows[j]
                             ELSE IF j = k
                                  THEN [edited EXCEPT !.sort_order = Cardinality(target_items)]
                             ELSE IF j \in source_items
                                  THEN [rows[j] EXCEPT !.sort_order = RankIn(rows, source_items, j)]
                             ELSE rows[j]]]
          /\ response' = Redirect
          /\ last_run' = Committed("edit_item")
          /\ UNCHANGED <<route_points, route_markers, session, seen, scan>>

\* payload is MoveItemPayload(day_id, position): day_id optional
move_item(trip_id, item_id, day_id, position) ==
  LET k == item_id[2]
      rows == items[trip_id]
      target_day_id == day_id
      old_day_id == rows[k].day_id
      source_items == BucketIdx(rows, old_day_id, k)
      target_items == IF old_day_id = target_day_id THEN source_items
                      ELSE BucketIdx(rows, target_day_id, k)
      bounded_position == Max2(0, Min2(position, Cardinality(target_items)))
      Fail(resp) == /\ response' = resp
                    /\ UNCHANGED <<route_points, route_markers, items, last_run, session, seen, scan>>
  IN IF trip_id \notin Trips THEN Fail(HTTPException(404, "Trip not found"))
     ELSE IF ~ItemFound(trip_id, item_id) THEN Fail(HTTPException(404, "Item not found"))
     ELSE IF target_day_id # None
             /\ (Val(target_day_id) \notin Days \/ DayTrip[Val(target_day_id)] # trip_id)
          THEN Fail(HTTPException(400, "Day does not belong to this trip"))
     ELSE /\ items' = [items EXCEPT ![trip_id] =
                          [j \in 1..Len(rows) |->
                             IF j = k
                             THEN [rows[j] EXCEPT !.day_id = target_day_id,
                                                  !.sort_order = bounded_position]
                             ELSE IF j \in target_items
                                  THEN [rows[j] EXCEPT !.sort_order =
                                          IF RankIn(rows, target_items, j) < bounded_position
                                          THEN RankIn(rows, target_items, j)
                                          ELSE RankIn(rows, target_items, j) + 1]
                             ELSE IF j \in source_items
                                  THEN [rows[j] EXCEPT !.sort_order = RankIn(rows, source_items, j)]
                             ELSE rows[j]]]
          /\ response' = [status |-> 200, detail |-> ""]
          /\ last_run' = Committed("move_item")
          /\ UNCHANGED <<route_points, route_markers, session, seen, scan>>

\* (delete_item_no_renumber: the siblings keep their sort_order)
delete_item_no_renumber(trip_id, item_id) ==
  IF trip_id \notin Trips \/ ~ItemFound(trip_id, item_id)
  THEN /\ response' = HTTPException(404, "Item not found")
       /\ UNCHANGED <<route_points, route_markers, items, last_run, session, seen, scan>>
  ELSE /\ items' = [items EXCEPT ![trip_id] = RemoveAt(@, item_id[2])]
       /\ response' = Redirect
       /\ last_run' = Committed("delete_item")
       /\ UNCHANGED <<route_points, route_markers, session, seen, scan>>

delete_item(trip_id, item_id) ==
  LET k == item_id[2]
      rows == items[trip_id]
      siblings == BucketIdx(rows, rows[k].day_id, k)
      Fail(resp) == /\ response' = resp
                    /\ UNCHANGED <<route_points, route_markers, items, last_run, session, seen, scan>>
  IN IF trip_id \notin Trips THEN Fail(HTTPException(404, "Trip not found"))
     ELSE IF ~ItemFound(trip_id, item_id) THEN Fail(HTTPException(404, "Item not found"))
     ELSE /\ items' = [items EXCEPT ![trip_id] =
                          RemoveAt([j \in 1..Len(rows) |->
                                      IF j \in siblings
                                      THEN [rows[j] EXCEPT !.sort_order = RankIn(rows, siblings, j)]
                                      ELSE rows[j]], k)]
          /\ response' = Redirect
          /\ last_run' = Committed("delete_item")
          /\ UNCHANGED <<route_points, route_markers, session, seen, scan>>

\* ------------------------------------------------------------------ schedule
\* (midnight + timedelta(minutes)).strftime("%H:%M"): the clock text
\* <<hour, minute>>, which starts again after a day; "" is <<>>
minutes_to_hhmm(minutes) == <<(minutes \div 60) % 24, minutes % 60>>

\* (ScanItemNoOverlap: an explicit start is moved to the carried end when earlier)
ScanItemNoOverlap(last_end_minutes, item) ==
  LET duration == item.duration_minutes
      own == Val(item.start_time)[1] * 60 + Val(item.start_time)[2]
      start_minutes == IF item.start_time # None
                       THEN IF last_end_minutes # None
                            THEN Some(Max2(own, Val(last_end_minutes))) ELSE Some(own)
                       ELSE last_end_minutes
      end_minutes == IF start_minutes # None /\ duration # None
                     THEN Some(Val(start_minutes) + Val(duration)) ELSE None
  IN [last_end_minutes |-> IF end_minutes # None THEN end_minutes
                           ELSE IF start_minutes # None THEN start_minutes
                           ELSE last_end_minutes,
      entry |-> [start |-> IF start_minutes # None THEN minutes_to_hhmm(Val(start_minutes)) ELSE <<>>,
                 end |-> IF end_minutes # None THEN minutes_to_hhmm(Val(end_minutes)) ELSE <<>>]]

\* (ScanItemKeepsEnd: last_end_minutes only follows a computed end)
ScanItemKeepsEnd(last_end_minutes, item) ==
  LET duration == item.duration_minutes
      start_minutes == IF item.start_time # None
                       THEN Some(Val(item.start_time)[1] * 60 + Val(item.start_time)[2])
                       ELSE last_end_minutes
      end_minutes == IF start_minutes # None /\ duration # None
                     THEN Some(Val(start_minutes) + Val(duration)) ELSE None
  IN [last_end_minutes |-> IF end_minutes # None THEN end_minutes ELSE last_end_minutes,
      entry |-> [start |-> IF start_minutes # None THEN minutes_to_hhmm(Val(start_minutes)) ELSE <<>>,
                 end |-> IF end_minutes # None THEN minutes_to_hhmm(Val(end_minutes)) ELSE <<>>]]

\* (ScanItemForgets: last_end_minutes is the end of this item, set or not)
ScanItemForgets(last_end_minutes, item) ==
  LET duration == item.duration_minutes
      start_minutes == IF item.start_time # None
                       THEN Some(Val(item.start_time)[1] * 60 + Val(item.start_time)[2])
                       ELSE last_end_minutes
      end_minutes == IF start_minutes # None /\ duration # None
                     THEN Some(Val(start_minutes) + Val(duration)) ELSE None
  IN [last_end_minutes |-> end_minutes,
      entry |-> [start |-> IF start_minutes # None THEN minutes_to_hhmm(Val(start_minutes)) ELSE <<>>,
                 end |-> IF end_minutes # None THEN minutes_to_hhmm(Val(end_minutes)) ELSE <<>>]]

\* one pass of the loop of _build_schedule: the new last_end_minutes and
\* the item's schedule entry
ScanItem(last_end_minutes, item) ==
  LET duration == item.duration_minutes
      start_minutes == IF item.start_time # None
                       THEN Some(Val(item.start_time)[1] * 60 + Val(item.start_time)[2])
                       ELSE IF last_end_minutes # None THEN last_end_minutes
                       ELSE None
      end_minutes == IF start_minutes # None /\ duration # None
                     THEN Some(Val(start_minutes) + Val(duration)) ELSE None
  IN [last_end_minutes |-> IF end_minutes # None THEN end_minutes
                           ELSE IF start_minutes # None /\ duration \in {Some(0), None}
                                THEN start_minutes
                           ELSE last_end_minutes,
      entry |-> [start |-> IF start_minutes # None THEN minutes_to_hhmm(Val(start_minutes)) ELSE <<>>,
                 end |-> IF end_minutes # None THEN minutes_to_hhmm(Val(end_minutes)) ELSE <<>>]]

\* trip_detail_page starts _build_schedule(_ordered_items(...)) for the
\* items of a day, or for the items without a day
trip_detail_page(trip_id, day) ==
  /\ trip_id \in Trips
  /\ scan.pos = Len(scan.items)
  /\ scan' = [items |-> OrderedItems(ItemsOfBucket(items[trip_id], day)), pos |-> 0,
              last_end_minutes |-> None, schedule |-> <<>>]
  /\ UNCHANGED <<route_points, route_markers, items, response, last_run, session, seen>>

\* for item in items: the loop body, once
build_schedule_step ==
  LET scanned == ScanItem(scan.last_end_minutes, scan.items[scan.pos + 1])
  IN /\ scan.pos < Len(scan.items)
     /\ scan' = [scan EXCEPT !.pos = @ + 1,
                             !.last_end_minutes = scanned.last_end_minutes,
                             !.schedule = Append(@, scanned.entry)]
     /\ UNCHANGED <<route_points, route_markers, items, response, last_run, session, seen>>

\* ----------------------------------------------------------------- sessions
\* get_db opens an AsyncSession per request.  The statements of a request
\* act on the session's view of the tables, inside one database
\* transaction; commit() makes the view the stored tables; a request that
\* ends without commit() is rolled back when the session closes.  Other
\* sessions read the stored tables.
\* The statements after the checks of import_route_gpx and of
\* generate_itinerary_from_route with clear_existing on; "add_points" and
\* "add_items" stand for the loops, one db.add() per step.
\* (import_statements_autocommit: a commit after the deletes)
import_statements_autocommit ==
  <<"delete_points", "delete_markers", "commit", "add_points", "commit">>

import_statements == <<"delete_points", "delete_markers", "add_points", "commit">>

generate_statements == <<"delete_items", "add_items", "commit">>

Stored == [route_points |-> route_points, route_markers |-> route_markers, items |-> items]

InFlight(op, stmts, trip_id, day, rows) ==
  [pc |-> 1, op |-> op, stmts |-> stmts, trip_id |-> trip_id, day |-> day,
   rows |-> rows, added |-> 0, before |-> Stored, view |-> Stored]

\* the checks of import_route_gpx passed: the session is about to delete
begin_import(trip_id, content) ==
  /\ session = Idle
  /\ trip_id \in Trips /\ content.kind = "xml" /\ ~RaisesValueError(content)
  /\ ~TooFewPoints(parse_gpx_points(content))
  /\ session' = InFlight("import", import_statements, trip_id, 0,
                         NewRoutePoints(parse_gpx_points(content)))
  /\ UNCHANGED <<route_points, route_markers, items, response, last_run, seen, scan>>

\* the checks of generate_itinerary_from_route passed, clear_existing is on
begin_generate(trip_id, day_id) ==
  LET day == Val(to_optional_int(day_id))
      route == RoutePointsOf(trip_id)
      markers == MarkersOf(trip_id)
      emitted == Emit(route, markers, Anchors(route, markers), Len(markers) + 1, day, 0)
  IN /\ session = Idle
     /\ generate_error(trip_id, day_id) = Redirect
     /\ Len(delete_items_of_day(items[trip_id], day)) + Len(emitted) <= MaxItems
     /\ session' = InFlight("generate", generate_statements, trip_id, day, emitted)
     /\ UNCHANGED <<route_points, route_markers, items, response, last_run, seen, scan>>

\* the session executes its next statement
session_step ==
  LET stmt == session.stmts[session.pc]
      t == session.trip_id
      next == [session EXCEPT !.pc = @ + 1]
      row == session.rows[session.added + 1]
      looped == [session EXCEPT !.pc = IF session.added + 1 < Len(session.rows) THEN @ ELSE @ + 1,
                                !.added = @ + 1]
      Quiet == UNCHANGED <<route_points, route_markers, items, response, last_run, seen, scan>>
  IN /\ session # Idle
     /\ CASE stmt = "delete_points" ->
               /\ session' = [next EXCEPT !.view.route_points[t] = delete_points_of_trip(@)]
               /\ Quiet
          [] stmt = "delete_markers" ->
               /\ session' = [next EXCEPT !.view.route_markers[t] = delete_markers_of_trip(@)]
               /\ Quiet
          [] stmt = "delete_items" ->
               /\ session' = [next EXCEPT !.view.items[t] = delete_items_of_day(@, session.day)]
               /\ Quiet
          [] stmt = "add_points" ->
               /\ session' = [looped EXCEPT !.view.route_points[t] = Append(@, row)]
               /\ Quiet
          [] stmt = "add_items" ->
               /\ session' = [looped EXCEPT !.view.items[t] = Append(@, row)]
               /\ Quiet
          [] stmt = "commit" ->
               /\ route_points' = session.view.route_points
               /\ route_markers' = session.view.route_markers
               /\ items' = session.view.items
               /\ session' = IF session.pc = Len(session.stmts) THEN Idle ELSE next
               /\ response' = Redirect
               /\ last_run' = Committed(session.op)
               /\ UNCHANGED <<seen, scan>>

\* the request ends with an exception before its commit: the session closes
\* and its transaction is rolled back
session_fails ==
  /\ session # Idle
  /\ session' = Idle
  /\ response' = HTTPException(500, "Internal Server Error")
  /\ UNCHANGED <<route_points, route_markers, items, last_run, seen, scan>>

\* another request reads the route and the entries of day 1 of trip 1
read ==
  /\ seen' = [route_points |-> RoutePointsOf(1),
              items |-> OrderedItems(ItemsOfDay(items[1], 1)),
              during |-> session # Idle]
  /\ UNCHANGED <<route_points, route_markers, items, response, last_run, session, scan>>

\* ----------------------------------------------------------- specifications
\* Track points of the uploads: two places 0.002 degree apart on the equator
\* (a marker placed half way is equally far from both) and a third off it
PointA == Trkpt(NumText(0), NumText(0), NumText(0))
PointB == Trkpt(NumText(0), NumText(2), NumText(10))
PointC == Trkpt(NumText(1), NumText(1), None)
NoLonPoint == Trkpt(NumText(0), None, NumText(5))
BadLatPoint == Trkpt(BadText, NumText(1), NumText(5))

TripIds == Trips \cup {7}
TargetDayInputs == {"", "x"}
PoiTypeIds == POITypes \cup {7}

\* route import and markers of two trips: every upload of up to MaxPts
\* points for trip 1, one known track (and one empty file) for the others
Documents ==
  {EmptyContent, MalformedContent}
  \cup {XmlContent(e) : e \in SeqsUpTo({PointA, PointB}, MaxPts)}
  \cup {XmlContent(<<PointA, NoLonPoint, PointB>>), XmlContent(<<PointA, BadLatPoint>>)}

OtherDocuments == {EmptyContent, XmlContent(<<PointB, PointA>>)}

DocumentsFor(trip_id) == IF trip_id = 1 THEN Documents ELSE OtherDocuments

Places == {<<0, 1>>, <<0, 2>>}

MarkerRows == Len(route_markers[1]) + Len(route_markers[2])

Import ==
  \E trip_id \in TripIds, target_day_id \in TargetDayInputs :
     \E content \in DocumentsFor(trip_id) :
        import_route_gpx(trip_id, content, target_day_id)

AddMarker ==
  \E trip_id \in TripIds, title \in {"Hut"}, poi_type_id \in PoiTypeIds, place \in Places,
     target_day_id \in TargetDayInputs :
     /\ MarkerRows < MaxMarkers
     /\ add_route_marker(trip_id, title, poi_type_id, place[1], place[2], target_day_id)

DeleteMarker ==
  \E trip_id \in Trips, owner \in Trips, k \in 1..MaxMarkers,
     target_day_id \in TargetDayInputs :
     delete_route_marker(trip_id, <<owner, k>>, target_day_id)

Next == Import \/ AddMarker \/ DeleteMarker

Spec == Init /\ [][Next]_vars

\* itinerary generation over every track of up to MaxPts + 1 points of trip 1
\* and every placement of up to MaxMarkers markers on it
GenDocuments == {XmlContent(e) : e \in SeqsUpTo({PointA, PointB, PointC}, MaxPts + 1)}

GenMarkers == {<<"Hut", 0, 0>>, <<"Peak", 0, 2>>, <<" ", 1, 1>>}

GenImport ==
  /\ route_points[1] = <<>>
  /\ \E content \in GenDocuments : import_route_gpx(1, content, "")

GenAddMarker ==
  /\ Len(route_markers[1]) < MaxMarkers
  /\ \E m \in GenMarkers : add_route_marker(1, m[1], 1, m[2], m[3], "")

Generate ==
  \E day_id \in {"1", ""}, clear_existing \in {"on", ""} :
     generate_itinerary_from_route(1, day_id, clear_existing)

NextGen == GenImport \/ GenAddMarker \/ Generate

SpecGen == Init /\ [][NextGen]_vars

\* generation on long tracks of trip 1: three legs of 400 grid steps, then a
\* leg of one step (too short to change the cumulative sum), then a long leg
\* back; markers at both ends of the short leg and at the start
LongDocuments ==
  LET far(lat, lon) == Trkpt(NumText(lat), NumText(lon), None)
      track == <<far(0, 0), far(0, 400), far(1, 0), far(1, 400), far(2, 400), far(2, 0)>>
  IN {XmlContent(track), XmlContent(SubSeq(track, 1, 5)), XmlContent(SubSeq(track, 4, 6))}

LongMarkers == {<<"Hut", 2, 400>>, <<"Peak", 1, 400>>, <<"Ford", 0, 0>>}

LongImport ==
  /\ route_points[1] = <<>>
  /\ \E content \in LongDocuments : import_route_gpx(1, content, "")

LongAddMarker ==
  /\ Len(route_markers[1]) < MaxMarkers
  /\ \E m \in LongMarkers : add_route_marker(1, m[1], 1, m[2], m[3], "")

LongGenerate ==
  \E day_id \in {"1", ""}, clear_existing \in {"on", ""} :
     generate_itinerary_from_route(1, day_id, clear_existing)

NextLong == LongImport \/ LongAddMarker \/ LongGenerate

SpecLong == Init /\ [][NextLong]_vars

\* regeneration: two tracks of trip 1 imported, re-imported, marked, unmarked
\* and generated from in any order, for day 1 of the trip
RegenDocuments == {XmlContent(<<PointA, PointC, PointB>>), XmlContent(<<PointB, PointA>>)}

RegenImport == \E content \in RegenDocuments : import_route_gpx(1, content, "")

RegenMarkers == {<<"Hut", 0, 0>>, <<" ", 1, 1>>}

RegenAddMarker ==
  /\ Len(route_markers[1]) < MaxMarkers
  /\ \E m \in RegenMarkers : add_route_marker(1, m[1], 1, m[2], m[3], "")

RegenDeleteMarker == \E k \in 1..MaxMarkers : delete_route_marker(1, <<1, k>>, "")

Regenerate ==
  \E day_id \in {"1", "3", "", "x"}, clear_existing \in {"on", ""} :
     generate_itinerary_from_route(1, day_id, clear_existing)

NextRegen == RegenImport \/ RegenAddMarker \/ RegenDeleteMarker \/ Regenerate

SpecRegen == Init /\ [][NextRegen]_vars

\* a re-import or a clearing regeneration served statement by statement
\* while another request reads
TxnBeginImport == \E content \in RegenDocuments : begin_import(1, content)

TxnBeginGenerate == begin_generate(1, "1")

TxnAddMarker ==
  /\ session = Idle
  /\ Len(route_markers[1]) < MaxMarkers
  /\ add_route_marker(1, "Hut", 1, 1, 1, "")

TxnStep == session_step

TxnFail == session_fails

TxnRead == read

NextTxn ==
  TxnBeginImport \/ TxnBeginGenerate \/ TxnAddMarker \/ TxnStep \/ TxnFail \/ TxnRead

SpecTxn == Init /\ [][NextTxn]_vars

\* entries that outlive their route: two tracks of different length imported
\* over each other, markers, clearing generations for day 1 and the route
\* data of the trip and of its days
StaleImport == \E content \in RegenDocuments : import_route_gpx(1, content, "")

StaleAddMarker ==
  /\ Len(route_markers[1]) < MaxMarkers
  /\ \E m \in RegenMarkers : add_route_marker(1, m[1], 1, m[2], m[3], "")

StaleGenerate == generate_itinerary_from_route(1, "1", "on")

RouteData == \E trip_id \in {1, 7}, day_id \in {"1", "2", "", "3", "x"} : route_data(trip_id, day_id)

NextStale == StaleImport \/ StaleAddMarker \/ StaleGenerate \/ RouteData

SpecStale == Init /\ [][NextStale]_vars

\* hand-made and generated entries: one track, one place for markers, up to
\* MaxManual entries made by hand for the days of trip 1 or for no day
MaxManual == MaxMarkers

ManualImport ==
  /\ route_points[1] = <<>>
  /\ import_route_gpx(1, XmlContent(<<PointA, PointC, PointB>>), "")

ManualAddMarker ==
  /\ Len(route_markers[1]) < MaxMarkers
  /\ add_route_marker(1, "Hut", 1, 1, 1, "")

ManualKinds ==
  {<<"poi", "", "1">>, <<"transport", "walk", "">>, <<"poi", "", "">>,
   <<"transport", "fly", "">>, <<"poi", "", "7">>}

CreateItem ==
  \E trip_id \in {1, 7}, kind \in ManualKinds, day_id \in {"1", "2", "", "3", "x"},
     insert_position \in {"", "0"} :
     /\ Len(SelectSeq(items[1], LAMBDA row : row.route_start_seq = None)) < MaxManual
     /\ Len(items[1]) < MaxItems
     /\ create_item(trip_id, "Lunch", kind[1], day_id, kind[2], kind[3], "", "", insert_position)

ManualGenerate ==
  \E clear_existing \in {"on", ""} : generate_itinerary_from_route(1, "1", clear_existing)

NextManual == ManualImport \/ ManualAddMarker \/ CreateItem \/ ManualGenerate

SpecManual == Init /\ [][NextManual]_vars

\* hand-made items with start times and durations, and the schedule of the
\* trip page
MaxScheduled == MaxPts

ScheduleCreateItem ==
  \E start_time \in {"", "08:00", "23:30", "7h"}, duration_minutes \in {"", "0", "45", "-5"},
     insert_position \in {"", "0"} :
     /\ scan.pos = Len(scan.items)
     /\ Len(items[1]) < MaxScheduled
     /\ create_item(1, "Lunch", "poi", "1", "", "1", start_time, duration_minutes,
                    insert_position)

ScheduleDetailPage == trip_detail_page(1, Some(1))

ScheduleStep == build_schedule_step

NextSchedule == ScheduleCreateItem \/ ScheduleDetailPage \/ ScheduleStep

SpecSchedule == Init /\ [][NextSchedule]_vars

\* the items of trip 1 made by hand and by generation, edited, moved between
\* the buckets of the trip and deleted
MaxListed == MaxMarkers + 1

ItemIds == {<<1, k>> : k \in 1..MaxListed} \cup {<<2, 1>>}

ItemsImport ==
  /\ route_points[1] = <<>>
  /\ import_route_gpx(1, XmlContent(<<PointA, PointB>>), "")

ItemsAddMarker ==
  /\ route_markers[1] = <<>>
  /\ add_route_marker(1, "Hut", 1, 0, 2, "")

ItemsCreate ==
  \E day_id \in {"1", "", "3"}, insert_position \in {"", "0", "1"} :
     /\ Len(items[1]) < MaxListed
     /\ create_item(1, "Lunch", "poi", day_id, "", "1", "", "", insert_position)

ItemsEdit ==
  \E item_id \in ItemIds, day_id \in {"1", "", "3"} :
     edit_item(1, item_id, "Lunch", "poi", day_id, "", "1", "", "")

ItemsMove ==
  \E item_id \in ItemIds, day_id \in {None, Some(1), Some(3)},
     position \in {0 - 1, 0, 1, 7} :
     move_item(1, item_id, day_id, position)

ItemsDelete == \E item_id \in ItemIds : delete_item(1, item_id)

ItemsGenerate ==
  \E clear_existing \in {"on", ""} :
     /\ Len(IF clear_existing = "on" THEN delete_items_of_day(items[1], 1) ELSE items[1])
          <= MaxListed - 2
     /\ generate_itinerary_from_route(1, "1", clear_existing)

NextItems ==
  \/ ItemsImport \/ ItemsAddMarker \/ ItemsCreate \/ ItemsEdit \/ ItemsMove \/ ItemsDelete
  \/ ItemsGenerate

SpecItems == Init /\ [][NextItems]_vars

\* track ingest: documents of up to MaxPts elements, among them track points
\* without lat, without lon, with an elevation text that is no number, and
\* two documents with a waypoint, uploaded and uploaded again for trip 1 while trip 2 gets a
\* track of its own
NoLatPoint == Trkpt(None, NumText(1), NumText(5))
BadElePoint == Trkpt(NumText(2), NumText(2), BadText)
Waypoint == [tag |-> "{gpx}wpt", lat |-> NumText(1), lon |-> NumText(1), ele |-> NumText(5)]

IngestDocuments ==
  {XmlContent(e) : e \in SeqsUpTo({PointA, NoLonPoint, NoLatPoint, BadElePoint}, MaxPts)}
  \cup {XmlContent(<<BadElePoint, Waypoint, PointB>>), XmlContent(<<PointB, Waypoint>>)}

IngestImport == \E content \in IngestDocuments : import_route_gpx(1, content, "")

IngestImportOther == \E content \in OtherDocuments : import_route_gpx(2, content, "")

NextIngest == IngestImport \/ IngestImportOther

SpecIngest == Init /\ [][NextIngest]_vars

\* route profile: a track for trip 1 and the same track, uploaded end to
\* start, for trip 2.  The tracks: any two places of a 3 x 3 grid, and up to
\* MaxPts + 1 points along a line with every choice of elevations.
ProfilePlaces == (0..2) \X (0..2)

ProfileElevations == {None, NumText(0), NumText(1), NumText(2), NumText(10)}

ProfileDocuments ==
  {XmlContent(<<Trkpt(NumText(a[1]), NumText(a[2]), None),
                Trkpt(NumText(b[1]), NumText(b[2]), None)>>) :
     a \in ProfilePlaces, b \in ProfilePlaces}
  \cup {XmlContent([k \in 1..Len(e) |-> Trkpt(NumText(0), NumText(k), e[k])]) :
          e \in {q \in SeqsUpTo(ProfileElevations, MaxPts + 1) : Len(q) >= 2}}

\* the document holding the stored points, last point first
ReversedDocument(rows) ==
  XmlContent([k \in 1..Len(rows) |->
                LET row == rows[Len(rows) + 1 - k]
                IN Trkpt(NumText(row.latitude), NumText(row.longitude),
                         IF row.elevation_m = None THEN None
                         ELSE NumText(Val(row.elevation_m)))])

ProfileImport ==
  /\ route_points[1] = <<>>
  /\ \E content \in ProfileDocuments : import_route_gpx(1, content, "")

ProfileImportReversed ==
  /\ route_points[1] # <<>> /\ route_points[2] = <<>>
  /\ import_route_gpx(2, ReversedDocument(RoutePointsOf(1)), "")

NextProfile == ProfileImport \/ ProfileImportReversed

SpecProfile == Init /\ [][NextProfile]_vars

\* ------------------------------------------------------------------ claims
Route1 == RoutePointsOf(1)
Markers1 == MarkersOf(1)
LastSeq(route) == route[Len(route)].seq
CumAt(route, seq) ==
  LET i == CHOOSE i \in 1..Len(route) : route[i].seq = seq
  IN route[i].cumulative_distance_m
Travels(rows) == SelectSeq(rows, LAMBDA row : row.item_type = "transport")
Stops(rows) == SelectSeq(rows, LAMBDA row : row.item_type = "poi")
Generated == last_run.op = "generate"
DistinctSeqs(markers) ==
  \A k, l \in 1..Len(markers) : k # l => markers[k].snapped_seq # markers[l].snapped_seq

\* C1: every stored marker of a trip has the seq of a stored route point of
\* that trip as snapped_seq and that point's cumulative distance as
\* snapped_distance_m, whatever imports, marker additions and deletions came
\* before.
C1_MarkersReferenceRoute ==
  \A t \in Trips : \A k \in 1..Len(route_markers[t]) :
     \E i \in 1..Len(route_points[t]) :
        /\ route_points[t][i].seq = route_markers[t][k].snapped_seq
        /\ route_points[t][i].cumulative_distance_m = route_markers[t][k].snapped_distance_m

C1_Witness ==
  /\ last_run.op = "delete_marker"
  /\ \E k \in 1..Len(route_markers[1]) : route_markers[1][k].snapped_seq >= 1

\* C2: a clearing generation for a day that directly follows a clearing
\* generation for the same day (route and markers unchanged in between)
\* leaves the day with the same entries, field by field, in the same order.
C2_RegenerationIdempotent ==
  (Generated /\ last_run.repeat)
    => OrderedItems(ItemsOfDay(items[1], last_run.day)) = last_run.before

C2_Witness ==
  /\ Generated /\ last_run.repeat
  /\ Len(last_run.before) >= 3
  /\ Len(Stops(last_run.before)) >= 1

\* C3: on a non-empty route, snapping a coordinate returns the seq of a route
\* point at the least distance from it, and the lowest seq among the points
\* at that distance; the markers stored carry that seq.  (Stated of the route
\* as an import leaves it and of the markers as an addition leaves them:
\* nothing else changes either.)
Grid == 0..2
DistTo(route, i, lat, lon) == haversine_m(lat, lon, route[i].latitude, route[i].longitude)
NearestLowest(route, lat, lon, seq) ==
  \E i \in 1..Len(route) :
     /\ route[i].seq = seq
     /\ \A j \in 1..Len(route) :
           /\ DistTo(route, i, lat, lon) <= DistTo(route, j, lat, lon)
           /\ DistTo(route, j, lat, lon) = DistTo(route, i, lat, lon) => seq <= route[j].seq

C3_SnapNearestLowestSeq ==
  /\ last_run.op = "import" =>
        \A lat \in Grid, lon \in Grid :
           NearestLowest(Route1, lat, lon, snap_to_route(lat, lon, Route1)[1])
  /\ last_run.op = "add_marker" =>
        \A k \in 1..Len(Markers1) :
           NearestLowest(Route1, Markers1[k].latitude, Markers1[k].longitude,
                         Markers1[k].snapped_seq)

\* a stored marker equally far from two different places of the route
C3_Witness ==
  \E k \in 1..Len(Markers1) : \E i, j \in 1..Len(Route1) :
     /\ i < j
     /\ Route1[i].longitude # Route1[j].longitude
     /\ Markers1[k].snapped_seq = Route1[i].seq
     /\ DistTo(Route1, i, Markers1[k].latitude, Markers1[k].longitude)
          = DistTo(Route1, j, Markers1[k].latitude, Markers1[k].longitude)

\* C4: the stored route point of seq 0 has cumulative distance 0, every later
\* one has the cumulative distance of its predecessor plus the geodesic
\* distance between the two, so the cumulative distance never decreases.
C4_CumulativeDistance ==
  \A t \in Trips :
     LET route == RoutePointsOf(t)
     IN /\ route # <<>> => route[1].seq = 0 /\ route[1].cumulative_distance_m = 0
        /\ \A i \in 2..Len(route) :
              /\ route[i].cumulative_distance_m
                   = route[i - 1].cumulative_distance_m
                     + haversine_m(route[i - 1].latitude, route[i - 1].longitude,
                                   route[i].latitude, route[i].longitude)
              /\ route[i].cumulative_distance_m >= route[i - 1].cumulative_distance_m

C4_Witness ==
  /\ last_run.op = "import"
  /\ Len(Route1) = 3
  /\ Route1[3].cumulative_distance_m > Route1[2].cumulative_distance_m
  /\ Route1[2].cumulative_distance_m > 0

\* C5: a successful import leaves the trip with exactly the track points of
\* the document, in document order, numbered 0..n-1 with n >= 2 (so no row of
\* an earlier import is left), and leaves the route points of every other
\* trip as they were.
C5_ImportReplacesRoute ==
  [][\A trip_id \in Trips, target_day_id \in TargetDayInputs :
       \A content \in DocumentsFor(trip_id) :
          (/\ last_run'.op = "import" /\ response'.status = 303
           /\ import_route_gpx(trip_id, content, target_day_id))
            => LET raw == parse_gpx_points(content)
                   rows == route_points'[trip_id]
               IN /\ Len(raw) >= 2
                  /\ Len(rows) = Len(raw)
                  /\ \A i \in 1..Len(rows) :
                        /\ rows[i].seq = i - 1
                        /\ rows[i].latitude = raw[i].lat
                        /\ rows[i].longitude = raw[i].lon
                        /\ rows[i].elevation_m = raw[i].ele
                  /\ \A other \in Trips \ {trip_id} :
                        route_points'[other] = route_points[other]]_vars

\* a re-import of trip 1 by a shorter track while trip 2 has a route
C5_Witness ==
  /\ last_run.op = "import" /\ last_run.repeat
  /\ response.status = 303
  /\ Len(route_points[1]) = 2
  /\ route_points[2] # <<>>
  /\ route_points[1][1].longitude # route_points[2][1].longitude

\* C6: every successful generation emits exactly one stop entry per marker of
\* the route, wherever the markers are snapped.
C6_OneStopPerMarker ==
  Generated => Len(Stops(last_run.emitted)) = Len(Markers1)

\* C7: when no two adjacent anchors of a run share a seq or go backwards, each
\* travel entry's distance is cumulative[end] - cumulative[start] >= 0 and the
\* travel distances add up to cumulative[last] - cumulative[first].
NonDegenerate(route, markers) ==
  LET anchors == Anchors(route, markers)
  IN \A j \in 1..(Len(anchors) - 1) : anchors[j + 1].seq > anchors[j].seq

C7_TravelDistances ==
  (Generated /\ NonDegenerate(Route1, Markers1)) =>
    LET travels == Travels(last_run.emitted)
    IN /\ \A k \in 1..Len(travels) :
             /\ Val(travels[k].distance_km)
                  = CumAt(Route1, Val(travels[k].route_end_seq))
                    - CumAt(Route1, Val(travels[k].route_start_seq))
             /\ Val(travels[k].distance_km) >= 0
       /\ SumSeq([k \in 1..Len(travels) |-> Val(travels[k].distance_km)])
            = Route1[Len(Route1)].cumulative_distance_m - Route1[1].cumulative_distance_m

C7_Witness ==
  /\ Generated /\ NonDegenerate(Route1, Markers1)
  /\ Len(Markers1) = 2
  /\ Len(Travels(last_run.emitted)) = 3

\* C8: with k >= 1 markers at pairwise distinct seqs strictly between 0 and the
\* last seq, a clearing generation emits travel, stop, ..., stop, travel:
\* 2k + 1 entries numbered 0..2k, the j-th travel from the j-th to the
\* (j+1)-th anchor by route position, each stop at its marker's seq, and
\* these are the day's entries.
Interior(route, markers) ==
  /\ Len(markers) >= 1
  /\ \A k \in 1..Len(markers) :
        markers[k].snapped_seq > 0 /\ markers[k].snapped_seq < LastSeq(route)

\* 0, the markers' seqs in ascending order, the last seq
AnchorSeqs(route, markers) ==
  LET seqs == [k \in 1..Len(markers) |-> markers[k].snapped_seq]
  IN <<0>> \o StableSortBy(seqs, seqs) \o <<LastSeq(route)>>

C8_AlternatingEntries ==
  (Generated /\ last_run.clear /\ Interior(Route1, Markers1) /\ DistinctSeqs(Markers1)) =>
    LET k == Len(Markers1)
        a == AnchorSeqs(Route1, Markers1)
        e == last_run.emitted
    IN /\ Len(e) = 2 * k + 1
       /\ OrderedItems(ItemsOfDay(items[1], last_run.day)) = e
       /\ \A j \in 1..(k + 1) :
             /\ e[2 * j - 1].item_type = "transport"
             /\ e[2 * j - 1].sort_order = 2 * j - 2
             /\ e[2 * j - 1].route_start_seq = Some(a[j])
             /\ e[2 * j - 1].route_end_seq = Some(a[j + 1])
       /\ \A j \in 1..k :
             /\ e[2 * j].item_type = "poi"
             /\ e[2 * j].sort_order = 2 * j - 1
             /\ e[2 * j].route_start_seq = Some(a[j + 1])
             /\ e[2 * j].route_end_seq = Some(a[j + 1])
             /\ \E m \in 1..k :
                   /\ Markers1[m].snapped_seq = a[j + 1]
                   /\ e[2 * j].title = <<Markers1[m].title>>

C8_Witness ==
  /\ Generated /\ last_run.clear
  /\ Interior(Route1, Markers1) /\ DistinctSeqs(Markers1)
  /\ Len(Markers1) = 2

\* C9: when one of the m markers is snapped to seq 0 and the others to
\* pairwise distinct seqs strictly between 0 and the last seq, a generation
\* emits m travel entries, none of them from Start to the marker at seq 0.
OneAtStart(route, markers) ==
  /\ DistinctSeqs(markers)
  /\ \E k \in 1..Len(markers) :
        /\ markers[k].snapped_seq = 0
        /\ \A l \in 1..Len(markers) :
              l # k => markers[l].snapped_seq > 0 /\ markers[l].snapped_seq < LastSeq(route)

C10_GenerationErrors ==
  [][\A clear_existing \in {"on", ""} :
       (/\ Len(Route1) < 2 \/ route_markers[1] = <<>>
        /\ generate_itinerary_from_route(1, "1", clear_existing)) =>
         /\ Len(Route1) < 2 =>
               /\ response' = HTTPException(400, "Import GPX route first")
               /\ items' = items
         /\ (Len(Route1) >= 2 /\ route_markers[1] = <<>>) =>
               /\ response' = HTTPException(400, "Add at least one marker before generation")
               /\ items' = items]_vars

\* generation refused for want of markers while the day has entries
C10_Witness ==
  /\ response = HTTPException(400, "Add at least one marker before generation")
  /\ route_markers[1] = <<>>
  /\ ItemsOfDay(items[1], 1) # <<>>

\* C11: an import of a document that is not well-formed, or that yields
\* fewer than 2 track points, is answered with an error and leaves the route
\* points and the markers of every trip as they were.
RejectedDocuments ==
  {content \in Documents \cup OtherDocuments :
     \/ content.kind = "malformed"
     \/ ~RaisesValueError(content) /\ Len(parse_gpx_points(content)) < 2}

C11_RejectedImportKeepsRoute ==
  [][\A trip_id \in Trips, target_day_id \in TargetDayInputs :
       \A content \in RejectedDocuments :
          import_route_gpx(trip_id, content, target_day_id)
            => /\ response'.status = 400
               /\ response'.detail \in {"Uploaded GPX is empty", "Invalid GPX XML",
                                        "GPX must contain at least 2 track points"}
               /\ route_points' = route_points
               /\ route_markers' = route_markers]_vars

\* a one-point upload refused while the trip has a route and a marker
C11_Witness ==
  /\ response = HTTPException(400, "GPX must contain at least 2 track points")
  /\ route_points[1] # <<>>
  /\ route_markers[1] # <<>>

\* C12: adding a marker (of a known POI type) to a trip without route points
\* is answered "Import GPX route first" and stores no marker.
C12_MarkerNeedsRoute ==
  [][\A trip_id \in Trips, poi_type_id \in POITypes, place \in Places,
        target_day_id \in TargetDayInputs :
       (/\ route_points[trip_id] = <<>>
        /\ add_route_marker(trip_id, "Hut", poi_type_id, place[1], place[2], target_day_id))
         => /\ response' = HTTPException(400, "Import GPX route first")
            /\ route_markers' = route_markers]_vars

\* the refusal for trip 1 while trip 2 has a route and a marker
C12_Witness ==
  /\ response = HTTPException(400, "Import GPX route first")
  /\ route_points[1] = <<>>
  /\ route_points[2] # <<>>
  /\ route_markers[2] # <<>>

Route2 == RoutePointsOf(2)
IsReversed(rows, other) ==
  /\ Len(rows) = Len(other) /\ rows # <<>>
  /\ \A k \in 1..Len(rows) :
        LET row == other[Len(rows) + 1 - k]
        IN /\ rows[k].latitude = row.latitude /\ rows[k].longitude = row.longitude
           /\ rows[k].elevation_m = row.elevation_m

RECURSIVE PlainTotals(_, _)
PlainTotals(points, i) ==
  IF i <= 1 THEN <<0, 0>>
  ELSE LET acc == PlainTotals(points, i - 1)
           prev == points[i - 1].elevation_m
           cur == points[i].elevation_m
       IN IF prev = None \/ cur = None THEN acc
          ELSE <<acc[1] + Max2(0, Val(cur) - Val(prev)), acc[2] + Max2(0, Val(prev) - Val(cur))>>

WithinRounding(a, b, n) == Abs(a - b) <= n * FloatUlp(Max2(a, b))

GreatestOrder(rows) ==
  CHOOSE m \in {rows[k].sort_order : k \in 1..Len(rows)} :
    \A k \in 1..Len(rows) : rows[k].sort_order <= m

C19_ConsecutiveOrder ==
  [][\A clear_existing \in {"on", ""} :
       (/\ generate_error(1, "1") = Redirect
        /\ generate_itinerary_from_route(1, "1", clear_existing))
         => LET existing == ItemsOfDay(items[1], 1)
                base == IF clear_existing = "on" \/ existing = <<>> THEN 0
                        ELSE 1 + GreatestOrder(existing)
                e == last_run'.emitted
                n == Len(items'[1])
            IN /\ e # <<>>
               /\ SubSeq(items'[1], n - Len(e) + 1, n) = e
               /\ \A k \in 1..Len(e) : e[k].sort_order = base + k - 1]_vars

\* an appending run after an earlier one, with a skipped anchor pair
C19_Witness ==
  /\ Generated /\ ~last_run.clear
  /\ last_run.emitted[1].sort_order > 0
  /\ Len(last_run.emitted) < 2 * Len(Markers1) + 1
  /\ Len(last_run.emitted) >= 2

\* C20 (as stated): a clearing generation keeps the entries of the day that
\* were made by hand (those without route seqs), a generation without
\* clear_existing only appends, and either leaves the entries of the other
\* days and of no day as they were.
HandMade(rows, day) ==
  SelectSeq(rows, LAMBDA row : row.day_id = day /\ row.route_start_seq = None)
OutsideDay(rows, day) == SelectSeq(rows, LAMBDA row : row.day_id # day)

C20_ClearKeepsHandMade ==
  [][\A clear_existing \in {"on", ""} :
       (/\ generate_error(1, "1") = Redirect
        /\ generate_itinerary_from_route(1, "1", clear_existing))
         => /\ HandMade(items'[1], Some(1)) = HandMade(items[1], Some(1))
            /\ OutsideDay(items'[1], Some(1)) = OutsideDay(items[1], Some(1))
            /\ clear_existing = "" =>
                  SubSeq(items'[1], 1, Len(items[1])) = items[1]]_vars

\* C16 (as stated): when an entry of the day refers to a seq the route does
\* not have, the route data of the day is not answered as if nothing were
\* wrong: the answer is an error, or its points hold every seq the day's
\* entries span.
SpannedSeqs(rows) ==
  UNION {Min2(Val(rows[k].route_start_seq), Val(rows[k].route_end_seq))
           ..Max2(Val(rows[k].route_start_seq), Val(rows[k].route_end_seq)) :
         k \in {i \in 1..Len(rows) : rows[i].route_start_seq # None}}

C16_NoSilentTruncation ==
  [][(/\ \E seq \in SpannedSeqs(ItemsOfDay(items[1], 1)) :
            \A i \in 1..Len(Route1) : Route1[i].seq # seq
      /\ route_data(1, "1"))
       => \/ response'.status # 200
          \/ \A seq \in SpannedSeqs(ItemsOfDay(items[1], 1)) :
                \E i \in 1..Len(response'.points) : response'.points[i].seq = seq]_vars


\* the stored tables once the session's request is complete
CompleteNewSet ==
  LET t == session.trip_id
      b == session.before
  IN IF session.op = "import"
     THEN [b EXCEPT !.route_points[t] = session.rows, !.route_markers[t] = <<>>]
     ELSE [b EXCEPT !.items[t] = delete_items_of_day(@, session.day) \o session.rows]

\* C15: while a re-import or a clearing regeneration is being served, the
\* stored tables are those from before its delete, so a concurrent read
\* returns the complete old set; the request ends either with its commit,
\* which stores the complete new set in one step, or with a failure, which
\* leaves the old set in place.
C15_AtomicReplace ==
  [][ /\ session # Idle => Stored = session.before
      /\ (session # Idle /\ session' = Idle) =>
           LET After == [route_points |-> route_points', route_markers |-> route_markers',
                         items |-> items']
           IN IF response'.status = 500
              THEN After = session.before
              ELSE After = CompleteNewSet
      /\ (session # Idle /\ seen' # seen) =>
           /\ seen'.route_points = session.before.route_points[1]
           /\ seen'.items = OrderedItems(ItemsOfDay(session.before.items[1], 1))
    ]_vars

\* a re-import has deleted the old route in its session and added one of
\* the new points; a read made meanwhile returned the whole old route
C15_Witness ==
  /\ session # Idle
  /\ session.op = "import"
  /\ session.before.route_points[1] # <<>>
  /\ session.added = 1
  /\ Len(session.view.route_points[1]) = 1
  /\ seen.during
  /\ seen.route_points = session.before.route_points[1]
  /\ seen.route_points # session.rows


\* the stop entry carries the marker's seq, title and category
StopOfMarker(item, marker) ==
  /\ item.route_start_seq = Some(marker.snapped_seq)
  /\ item.route_end_seq = Some(marker.snapped_seq)
  /\ item.title = <<marker.title>>
  /\ item.poi_type_id = Some(marker.poi_type_id)

\* the stop entry carries the latitude / longitude stored on the marker
AtMarkerPlace(item, marker) ==
  /\ item.latitude = Some(marker.latitude)
  /\ item.longitude = Some(marker.longitude)

\* C21: every stop entry a generation emits has the snapped seq of a marker
\* of the trip as both seqs and carries that marker's title, category and
\* stored latitude / longitude.
C21_StopCarriesMarkerPlace ==
  Generated =>
    \A k \in 1..Len(last_run.emitted) :
       last_run.emitted[k].item_type = "poi" =>
         \E m \in 1..Len(route_markers[1]) :
            /\ StopOfMarker(last_run.emitted[k], route_markers[1][m])
            /\ AtMarkerPlace(last_run.emitted[k], route_markers[1][m])


\* the elevation differences of the adjacent pairs with both elevations
\* present, in track order
Differences(points) ==
  LET pairs == SelectSeq([k \in 1..(Len(points) - 1) |-> k],
                         LAMBDA k : /\ points[k].elevation_m # None
                                    /\ points[k + 1].elevation_m # None)
  IN [j \in 1..Len(pairs) |->
        FloatRound(Val(points[pairs[j] + 1].elevation_m) - Val(points[pairs[j]].elevation_m))]

\* the sum of the first n numbers, added in order in the floats' arithmetic
RECURSIVE FloatSum(_, _)
FloatSum(numbers, n) ==
  IF n = 0 THEN 0 ELSE FloatRound(FloatSum(numbers, n - 1) + numbers[n])

SumOfClimbs(points) ==
  LET climbs == SelectSeq(Differences(points), LAMBDA d : d > 0)
  IN FloatSum(climbs, Len(climbs))

SumOfDrops(points) ==
  LET drops == SelectSeq(Differences(points), LAMBDA d : d < 0)
  IN FloatSum([j \in 1..Len(drops) |-> 0 - drops[j]], Len(drops))

\* C22: for every stored track, the ascent is the sum of the positive
\* elevation differences and the descent the sum of the magnitudes of the
\* negative ones, over exactly the adjacent pairs with both elevations
\* present (a pair with a missing elevation adds nothing and resets
\* nothing); both are >= 0, and they are the totals of whole-number
\* arithmetic whenever those stay within the numbers the floats hold.
C22_ElevationTotals ==
  \A t \in Trips :
     LET points == RoutePointsOf(t)
         totals == calc_elevation(points)
         plain == PlainTotals(points, Len(points))
     IN /\ totals = <<SumOfClimbs(points), SumOfDrops(points)>>
        /\ totals[1] >= 0 /\ totals[2] >= 0
        /\ (plain[1] <= 8 /\ plain[2] <= 8) => totals = plain

\* a track that climbs and drops before a point without elevation and has
\* a point with elevation after it
C22_Witness ==
  /\ Len(Route1) = 4
  /\ Route1[3].elevation_m = None
  /\ Route1[1].elevation_m # None /\ Route1[2].elevation_m # None
  /\ Route1[4].elevation_m # None
  /\ calc_elevation(Route1)[1] > 0
  /\ Len(Route2) = 4
  /\ calc_elevation(Route2)[2] > 0


\* the minutes of a stored start time, and the clock text of optional minutes
MinutesOf(start_time) == Val(start_time)[1] * 60 + Val(start_time)[2]
Clock(minutes) == IF minutes = None THEN <<>> ELSE minutes_to_hhmm(Val(minutes))
Scanning == scan'.pos = scan.pos + 1
Scanned == scan.items[scan.pos + 1]

\* C23: the entry the scan writes for an item has as start the item's own
\* start time when it has one, otherwise the carried last end when that is
\* set, otherwise none; as end start + duration exactly when the start is
\* set and the item has a duration (0 included), otherwise none; a start or
\* end that is not set is written as the empty text.
C23_EntryTimes ==
  [][Scanning =>
       LET carried == scan.last_end_minutes
           start == IF Scanned.start_time # None THEN Some(MinutesOf(Scanned.start_time))
                    ELSE carried
           end == IF start # None /\ Scanned.duration_minutes # None
                  THEN Some(Val(start) + Val(Scanned.duration_minutes))
                  ELSE None
           entry == scan'.schedule[scan'.pos]
       IN /\ entry.start = Clock(start)
          /\ entry.end = Clock(end)
          /\ (start = None) = (entry.start = <<>>)
          /\ (end = None) = (entry.end = <<>>)]_vars

\* a day whose first entry has neither start nor end, whose second runs
\* from 23:30 for 45 minutes and whose third starts at 08:00, before the end
\* of the second, with duration 0
C23_Witness ==
  /\ scan.pos = 3
  /\ scan.schedule[1] = [start |-> <<>>, end |-> <<>>]
  /\ scan.schedule[2] = [start |-> <<23, 30>>, end |-> <<0, 15>>]
  /\ scan.schedule[3] = [start |-> <<8, 0>>, end |-> <<8, 0>>]


\* rows holds the rows of bucket in ascending (sort_order, position in the
\* table), the table holding its rows by ascending id
InOrderById(rows, bucket) ==
  /\ Len(rows) = Len(bucket)
  /\ \E perm \in [1..Len(bucket) -> 1..Len(bucket)] :
        /\ \A k \in 1..Len(bucket) : rows[k] = bucket[perm[k]]
        /\ \A k, l \in 1..Len(bucket) :
              k < l => \/ bucket[perm[k]].sort_order < bucket[perm[l]].sort_order
                       \/ /\ bucket[perm[k]].sort_order = bucket[perm[l]].sort_order
                          /\ perm[k] < perm[l]

\* C24: the last end after an item is the item's end when one was computed,
\* else the item's start when the start is set and the duration is zero or
\* absent, else what it was before the item; the scan takes the items of the
\* day in ascending (sort_order, id), one after the other, each once, and
\* leaves their order alone.
C24_LastEndCarried ==
  [][
      /\ Scanning =>
          LET carried == scan.last_end_minutes
              duration == Scanned.duration_minutes
              start == IF Scanned.start_time # None THEN Some(MinutesOf(Scanned.start_time))
                       ELSE carried
              end == IF start # None /\ duration # None
                     THEN Some(Val(start) + Val(duration)) ELSE None
          IN /\ scan'.last_end_minutes =
                  IF end # None THEN end
                  ELSE IF start # None /\ (duration = None \/ duration = Some(0)) THEN start
                  ELSE carried
             /\ scan'.items = scan.items
             /\ Len(scan'.schedule) = scan'.pos
      /\ (scan' # scan /\ ~Scanning) =>
          /\ scan'.pos = 0 /\ scan'.last_end_minutes = None
          /\ InOrderById(scan'.items, ItemsOfBucket(items[1], Some(1)))
    ]_vars

\* a day whose first entry starts at 08:00 without a duration, whose second
\* has no start and lasts 45 minutes, and whose third has neither: the
\* second starts at 08:00, the third at 08:45; the first was inserted at
\* the front after the others were made
C24_Witness ==
  /\ scan.pos = 3
  /\ scan.schedule[1] = [start |-> <<8, 0>>, end |-> <<>>]
  /\ scan.schedule[2] = [start |-> <<8, 0>>, end |-> <<8, 45>>]
  /\ scan.schedule[3] = [start |-> <<8, 45>>, end |-> <<>>]
  /\ scan.last_end_minutes = Some(525)
  /\ items[1][3].sort_order = 0


\* an item at or before position k of the scan has a start time of its own
StartGivenBy(k) == \E j \in 1..k : scan.items[j].start_time # None

\* C30: in the schedule of a day, every entry before the first item with a
\* start time of its own has empty start and empty end, and that item's
\* entry and every later one has a non-empty start; once the last end is
\* set, no later item of the scan unsets it.
C30_StartsOnceSet ==
  /\ [](\A k \in 1..scan.pos :
           IF StartGivenBy(k)
           THEN scan.schedule[k].start # <<>>
           ELSE scan.schedule[k] = [start |-> <<>>, end |-> <<>>])
  /\ []((scan.pos > 0 /\ StartGivenBy(scan.pos)) => scan.last_end_minutes # None)
  /\ [][(Scanning /\ scan.last_end_minutes # None) => scan'.last_end_minutes # None]_vars

\* a day whose first item has a duration but no start, whose second has a
\* start and no duration, and whose third has neither start nor duration
C30_Witness ==
  /\ scan.pos = 3
  /\ scan.items[1].start_time = None /\ scan.items[1].duration_minutes # None
  /\ scan.items[2].start_time # None /\ scan.items[2].duration_minutes = None
  /\ scan.items[3].start_time = None /\ scan.items[3].duration_minutes = None
  /\ scan.schedule[1].start = <<>>
  /\ scan.schedule[3].start # <<>>


\* the positions of the elements of a document that are track points with
\* both attributes
TrackPointsOf(elems) ==
  {i \in 1..Len(elems) :
     elems[i].tag = "{gpx}trkpt" /\ elems[i].lat # None /\ elems[i].lon # None}

\* C25: an upload without unparsable coordinates never fails in the
\* ingestor: the stored points are its track-point elements with both
\* attributes, in document order, one row each, with the elevation absent
\* when the elevation text is no number; elements without lat or lon are
\* left out and do not count toward the two points an import needs.
C25_IngestInOrder ==
  [][\A trip_id \in {1}, content \in IngestDocuments :
       import_route_gpx(trip_id, content, "") =>
         LET elems == content.elems
             n == Cardinality(TrackPointsOf(elems))
         IN IF n < 2
            THEN /\ response' = HTTPException(400, "GPX must contain at least 2 track points")
                 /\ UNCHANGED route_points
            ELSE /\ response' = Redirect
                 /\ Len(route_points'[trip_id]) = n
                 /\ \E idx \in [1..n -> TrackPointsOf(elems)] :
                       /\ \A k, l \in 1..n : k < l => idx[k] < idx[l]
                       /\ \A k \in 1..n :
                             LET elem == elems[idx[k]]
                                 row == route_points'[trip_id][k]
                             IN /\ row.seq = k - 1
                                /\ row.latitude = elem.lat[2] /\ row.longitude = elem.lon[2]
                                /\ row.elevation_m =
                                     IF IsNum(elem.ele) THEN Some(FloatRound(elem.ele[2]))
                                     ELSE None]_vars

\* trip 1 holds the two points of a document whose first track point has an
\* elevation text that is no number (and whose middle element was left out),
\* and an upload with one track point beside an element without lon was
\* refused for want of points
C25_Witness ==
  /\ Len(route_points[1]) = 2
  /\ route_points[1][1].latitude = 2 /\ route_points[1][1].elevation_m = None
  /\ route_points[1][2].latitude = 0 /\ route_points[1][2].elevation_m = Some(10)
  /\ response = HTTPException(400, "GPX must contain at least 2 track points")


\* the buckets of a trip: its days and the entries without a day
BucketsOf(trip_id) == {None} \cup {Some(d) : d \in {e \in Days : DayTrip[e] = trip_id}}

\* C26: whatever entries were made, edited, moved, deleted and generated,
\* the sort_order values of each bucket of each trip are 0 .. n - 1 for the
\* n entries of the bucket, each value once.
C26_OrdersContiguous ==
  \A trip_id \in Trips :
   \A day \in BucketsOf(trip_id) :
     LET bucket == ItemsOfBucket(items[trip_id], day)
     IN /\ {bucket[k].sort_order : k \in 1..Len(bucket)} = 0..(Len(bucket) - 1)
        /\ \A k, l \in 1..Len(bucket) : k # l => bucket[k].sort_order # bucket[l].sort_order

\* after a move: day 1 holds a hand-made entry in front of a generated one,
\* and a generated entry was moved to the bucket without a day
C26_Witness ==
  /\ last_run.op = "move_item"
  /\ Len(ItemsOfBucket(items[1], Some(1))) = 2
  /\ Len(ItemsOfBucket(items[1], None)) = 1
  /\ ItemsOfBucket(items[1], None)[1].route_start_seq # None
  /\ \E k \in 1..Len(items[1]) :
        /\ items[1][k].day_id = Some(1) /\ items[1][k].route_start_seq = None
        /\ items[1][k].sort_order = 0


\* C27: a request to import a route, add a marker or delete a marker that
\* is answered with an error status leaves the stored route points and
\* markers as they were.
C27_ErrorKeepsRoute ==
  [][response'.status >= 400 => UNCHANGED <<route_points, route_markers>>]_vars


\* C28: the travel entries of a successful generation tile the route: the
\* first starts at seq 0, the last ends at the last seq, each has
\* route_start_seq < route_end_seq and starts where the one before it ended,
\* wherever the markers are (at seq 0, at the last seq, at the same seq).
C28_TravelsTileRoute ==
  Generated =>
    LET travels == Travels(last_run.emitted)
    IN /\ travels # <<>>
       /\ travels[1].route_start_seq = Some(0)
       /\ travels[Len(travels)].route_end_seq = Some(LastSeq(Route1))
       /\ \A k \in 1..Len(travels) :
             /\ Val(travels[k].route_start_seq) < Val(travels[k].route_end_seq)
             /\ k > 1 => travels[k].route_start_seq = travels[k - 1].route_end_seq

\* a generation on a route of 4 points with one marker at seq 0 and one at
\* the last seq
C28_Witness ==
  /\ Generated
  /\ Len(Route1) = 4 /\ Len(Markers1) = 2
  /\ \E k \in 1..2 : Markers1[k].snapped_seq = 0
  /\ \E k \in 1..2 : Markers1[k].snapped_seq = LastSeq(Route1)

\* C29: for every stored route and its markers, the anchor list (Start, the
\* markers, Finish, sorted by cumulative distance, ties in that order) has
\* Start first and Finish last, cumulative distances and seqs that never
\* decrease; so a pair of adjacent anchors is skipped only when the two
\* have the same seq.
C29_AnchorsInRouteOrder ==
  Len(Route1) >= 2 =>
    LET anchors == Anchors(Route1, Markers1)
        n == Len(anchors)
    IN /\ n = Len(Markers1) + 2
       /\ anchors[1].title = "Start" /\ anchors[1].marker = 0 /\ anchors[1].seq = 0
       /\ anchors[n].title = "Finish" /\ anchors[n].marker = 0
       /\ anchors[n].seq = LastSeq(Route1)
       /\ \A j \in 1..(n - 1) :
             /\ anchors[j].cum <= anchors[j + 1].cum
             /\ anchors[j].seq <= anchors[j + 1].seq
             /\ SkipsPair(anchors[j], anchors[j + 1]) => anchors[j].seq = anchors[j + 1].seq

\* a route that comes back to its first place and ends with the same place
\* twice, with two markers, one of them at the place of Finish: a pair of
\* anchors with the same cumulative distance and different seqs
C29_Witness ==
  /\ Len(Route1) = 4 /\ Len(Markers1) = 2
  /\ Route1[1].latitude = Route1[3].latitude /\ Route1[1].longitude = Route1[3].longitude
  /\ Route1[3].cumulative_distance_m = Route1[4].cumulative_distance_m
  /\ \E j \in 1..3 :
        LET anchors == Anchors(Route1, Markers1)
        IN anchors[j].cum = anchors[j + 1].cum /\ anchors[j].seq < anchors[j + 1].seq

====
